---- MODULE Spec2Model ----
(***************************************************************************)
(* Rice weed detector: the webcam capture session of RiceWeedDetectorApp   *)
(* (src/test.py) and the detection call of YOLOv11WeedDetector             *)
(* (src/model_integration.py).                                             *)
(*                                                                         *)
(* Threads.  The Tk main thread (the consumer) runs one handler at a time: *)
(* button commands and the callbacks posted with root.after(0, ...), which *)
(* Tk runs in posting order.  Every successful start_webcam starts one     *)
(* update_webcam thread (a producer); its steps interleave freely with the *)
(* handlers and with the other producers.  A producer is identified with   *)
(* the VideoCapture object whose construction started it.                  *)
(*                                                                         *)
(* Time is in whole seconds.  Confidences are in hundredths.               *)
(***************************************************************************)
EXTENDS Integers, Sequences, FiniteSets, TLC

(* ------------------------------ bounds --------------------------------- *)

\* VideoCapture objects that open the device during a run (each starts a thread)
MaxOpens == 2
\* times the wall clock is seen to have advanced
MaxTicks == 1
\* callbacks waiting in Tk's after queue
MaxQueue == 1
\* detections the backend returns for one image
MaxDetections == 2
\* YOLO(...) calls (model loads) during a run
MaxLoads == 2
\* frames a video file yields before a read fails
MaxFrames == 7
\* the largest frames_per_image
MaxFramesPerImage == 4
\* numpy arrays alive at one time
MaxArrays == 6

(* ------------------------- program constants --------------------------- *)

\* self.cap = None, self.current_webcam_frame = None
None == 0
\* a frame returned by read()
Frame == 1
\* a VideoCapture object whose isOpened() is false from its construction
Unopened == -1
\* self.last_alert_time = None
NoTime == -1
\* the cooldown of the realtime alert, in seconds
COOLDOWN == 60
\* timedelta.seconds is the seconds field of the difference: 0 .. 86399
SecondsPerDay == 86400
\* confidence_threshold=0.5
DefaultThreshold == 50

Handles == 1..MaxOpens
Producers == Handles

VARIABLES
    app_running,            \* root.mainloop() has not returned
    current_user,           \* TRUE: a user is logged in (the dashboard is shown)
    detector_model,         \* TRUE: self.detector and self.detector.model
    buttons_enabled,        \* state of the snapshot / realtime buttons of the dashboard
    controls_visible,       \* webcam_controls is packed (Capture / Stop buttons shown)
    capture_enabled,        \* capture_btn state is "normal"
    cap,                    \* self.cap: None or a VideoCapture object
    openHandles,            \* the VideoCapture objects that hold the device
    opened,                 \* VideoCapture objects that opened the device so far
    webcam_running,         \* self.webcam_running
    snapshot_mode,          \* self.snapshot_mode
    realtime_mode,          \* self.realtime_mode
    current_webcam_frame,   \* None or the stored frame
    last_alert_time,        \* self.last_alert_time
    clock,                  \* the last value datetime.now() returned
    ticks,                  \* advances of the clock seen so far
    pc,                     \* where each update_webcam thread is
    capref,                 \* the object a producer's self.cap evaluated to
    cur,                    \* a producer's local current_time
    afterQ,                 \* callbacks posted with root.after(0, ...), in order
    det_in,                 \* the input of a detect_weeds call
    det_out,                \* what that call returned
    det_prev,               \* the detect_weeds call before it: its input and result
    confidence_threshold,   \* self.detector.confidence_threshold, in hundredths
    detector_loads,         \* YOLO(...) calls so far: each builds a new model object
    notifier,               \* the send_resend_email thread: running, or how it ended
    capture_pc,             \* where the process_captured_image thread is
    captured,               \* frames read and not yet handed on, in capture order:
                            \*   who read each and realtime_mode at that time
    stop_from,              \* for each stop_webcam waiting in afterQ, who posted it
    recording,              \* TRUE: captured and stop_from are kept in this behaviour
    frame,                  \* update_webcam's local frame: the array read() returned
    writing,                \* the array that a call of each producer is filling
    reading,                \* the array capture_webcam_image is converting
    inflight,               \* a detect_weeds call in progress: its position and values
    upload_pc,              \* where the process_image thread is
    video,                  \* extract_frames_from_video: frames the file still yields
    frames_per_image,       \*   its argument
    frame_count,            \*   its local frame_count
    saved_image_count,      \*   its local saved_image_count
    saved,                  \*   the files written: number and index of the frame
    extract_pc,             \*   where the function is
    video_cap               \*   its local cap: "none", "open" or "released"

uiVars == <<current_user, detector_model, buttons_enabled, controls_visible, capture_enabled>>
sessionVars == <<cap, openHandles, webcam_running, snapshot_mode, realtime_mode>>
producerVars == <<pc, capref, cur>>
clockVars == <<clock, ticks>>
detVars == <<det_in, det_out, det_prev, confidence_threshold, detector_loads>>
taskVars == <<notifier, capture_pc>>
histVars == <<captured, stop_from, recording>>
frameVars == <<frame, writing, reading>>
extractVars == <<video, frames_per_image, frame_count, saved_image_count, saved,
                 extract_pc, video_cap>>
otherVars == <<frameVars, inflight, upload_pc, extractVars>>
vars == <<app_running, uiVars, sessionVars, opened, current_webcam_frame,
          last_alert_time, clockVars, producerVars, afterQ, detVars, taskVars, histVars, otherVars>>

(* ------------------- YOLOv11WeedDetector: pure parts ------------------- *)

\* A label is the sequence of its characters.
UpperCase == <<"A","B","C","D","E","F","G","H","I","J","K","L","M",
               "N","O","P","Q","R","S","T","U","V","W","X","Y","Z">>
LowerCase == <<"a","b","c","d","e","f","g","h","i","j","k","l","m",
               "n","o","p","q","r","s","t","u","v","w","x","y","z">>

\* str.lower() on one character, and on a string
lower_char(c) ==
    IF \E i \in DOMAIN UpperCase : UpperCase[i] = c
    THEN LowerCase[CHOOSE i \in DOMAIN UpperCase : UpperCase[i] = c]
    ELSE c
lower_keeps_case(s) == s
lower(s) == [i \in 1..Len(s) |-> lower_char(s[i])]

\* keyword in class_name_lower
contains(s, k) ==
    \E i \in 0..(Len(s) - Len(k)) : SubSeq(s, i + 1, i + Len(k)) = k

weed_keywords ==
    << <<"w","e","e","d">>,
       <<"u","n","w","a","n","t","e","d">>,
       <<"i","n","v","a","s","i","v","e">>,
       <<"p","e","s","t">>,
       <<"g","r","a","s","s">> >>

is_weed_class(class_name) ==
    LET class_name_lower == lower(class_name)
    IN  \E i \in DOMAIN weed_keywords : contains(class_name_lower, weed_keywords[i])

\* self.model.names of the loaded model: class id -> label.  Python's ids start at
\* 0; here they start at 1.
names ==
    << <<"r","i","c","e">>,
       <<"W","e","e","d","_","G","r","a","s","s">>,
       <<"W","E","E","D">>,
       <<"i","n","v","a","s","i","v","e","_","g","r","a","s","s">> >>

\* max(max_confidence, confidence)
max(a, b) == IF a >= b THEN a ELSE b

\* One pass of the loop over detections.class_id; acc is
\* (weed_detected, weed_count, max_confidence, labels appended so far).
scan_step_counts_all(acc, d) ==
    [weed_detected |-> TRUE,
     weed_count |-> acc.weed_count + 1,
     max_confidence |-> max(acc.max_confidence, d.confidence),
     n_labels |-> acc.n_labels + 1]
scan_step(acc, d) ==
    IF d.class_id \notin DOMAIN names
    THEN acc    \* self.model.names[class_id] raises: except ... continue
    ELSE LET class_name == lower(names[d.class_id])
         IN  IF is_weed_class(class_name)
             THEN [weed_detected |-> TRUE,
                   weed_count |-> acc.weed_count + 1,
                   max_confidence |-> max(acc.max_confidence, d.confidence),
                   n_labels |-> acc.n_labels + 1]
             ELSE [acc EXCEPT !.n_labels = acc.n_labels + 1]

RECURSIVE scan(_, _, _)
scan(detections, i, acc) ==
    IF i > Len(detections)
    THEN acc
    ELSE scan(detections, i + 1, scan_step(acc, detections[i]))

\* What detect_weeds returns; image is "None", "image" (the loaded image
\* itself), "copy" (image.copy(), nothing drawn) or "annotated".
Result(image, weed_detected, weed_count, max_confidence) ==
    [image |-> image, weed_detected |-> weed_detected,
     weed_count |-> weed_count, max_confidence |-> max_confidence]

\* detect_weeds(image_path).  The call's environment is in:
\*   in.model_loaded  self.model is not None
\*   in.image         "missing" | "unreadable" | "ok"
\*   in.predict       "error" | "no_results" | "convert_error" | "ok"
\*   in.detections    the detections of the call (class_id, confidence)
\*   in.annot_ok      the annotators do not raise
\* The label annotator raises when it is given fewer labels than detections.
detect_weeds_opens_nothing(in) ==
    IF ~in.model_loaded THEN Result("None", FALSE, 0, 0)
    ELSE IF in.predict = "no_results" THEN Result("image", FALSE, 0, 0)
    ELSE IF in.predict = "error" THEN Result("None", FALSE, 0, 0)
    ELSE IF in.predict = "convert_error" THEN Result("image", FALSE, 0, 0)
    ELSE LET acc == scan(in.detections, 1,
                         [weed_detected |-> FALSE, weed_count |-> 0,
                          max_confidence |-> 0, n_labels |-> 0])
         IN  Result(IF in.image = "ok" THEN "annotated" ELSE "None",
                    acc.weed_detected, acc.weed_count, acc.max_confidence)
detect_weeds_annotation_aborts(in) ==
    IF ~in.model_loaded THEN Result("None", FALSE, 0, 0)
    ELSE IF in.image = "missing" THEN Result("None", FALSE, 0, 0)
    ELSE IF in.image = "unreadable" THEN Result("None", FALSE, 0, 0)
    ELSE IF in.predict = "no_results" THEN Result("image", FALSE, 0, 0)
    ELSE IF in.predict = "error" THEN Result("None", FALSE, 0, 0)
    ELSE IF in.predict = "convert_error" THEN Result("image", FALSE, 0, 0)
    ELSE LET acc == scan(in.detections, 1,
                         [weed_detected |-> FALSE, weed_count |-> 0,
                          max_confidence |-> 0, n_labels |-> 0])
         IN  IF ~in.annot_ok \/ acc.n_labels # Len(in.detections)
             THEN Result("None", FALSE, 0, 0)
             ELSE Result(IF Len(in.detections) > 0 THEN "annotated" ELSE "copy",
                         acc.weed_detected, acc.weed_count, acc.max_confidence)
detect_weeds(in) ==
    IF ~in.model_loaded THEN Result("None", FALSE, 0, 0)
    ELSE IF in.image = "missing" THEN Result("None", FALSE, 0, 0)
    ELSE IF in.image = "unreadable" THEN Result("None", FALSE, 0, 0)
    ELSE IF in.predict = "no_results" THEN Result("image", FALSE, 0, 0)
    ELSE IF in.predict = "error" THEN Result("None", FALSE, 0, 0)
    ELSE IF in.predict = "convert_error" THEN Result("image", FALSE, 0, 0)
    ELSE LET acc == scan(in.detections, 1,
                         [weed_detected |-> FALSE, weed_count |-> 0,
                          max_confidence |-> 0, n_labels |-> 0])
             annotated_image ==
                 IF Len(in.detections) = 0 THEN "copy"
                 ELSE IF ~in.annot_ok \/ acc.n_labels # Len(in.detections) THEN "image"
                 ELSE "annotated"
         IN  Result(annotated_image, acc.weed_detected, acc.weed_count,
                    acc.max_confidence)

\* The operations on the file and the backend that a detect_weeds call performs,
\* in order: os.path.exists, Image.open, self.model.predict,
\* sv.Detections.from_ultralytics, the annotators.
stages(in) ==
    IF ~in.model_loaded THEN <<>>
    ELSE IF in.image = "missing" THEN <<"exists">>
    ELSE IF in.image = "unreadable" THEN <<"exists", "open">>
    ELSE IF in.predict \in {"no_results", "error"} THEN <<"exists", "open", "predict">>
    ELSE IF in.predict = "convert_error" THEN <<"exists", "open", "predict", "convert">>
    ELSE IF Len(in.detections) = 0 THEN <<"exists", "open", "predict", "convert">>
    ELSE <<"exists", "open", "predict", "convert", "annotate">>

\* The detections a backend can return: the engine drops what is below conf, so
\* every confidence is at least the threshold.
ClassIds == 1..(Len(names) + 1)
Confidences == {DefaultThreshold, 82}
Detection == [class_id : ClassIds, confidence : Confidences]
DetectionLists == UNION {[1..n -> Detection] : n \in 0..MaxDetections}
DetectInputs ==
    [model_loaded : BOOLEAN,
     image : {"missing", "unreadable", "ok"},
     predict : {"error", "no_results", "convert_error", "ok"},
     detections : DetectionLists,
     annot_ok : BOOLEAN]
NoCall == [image |-> "no call"]


(* --------------------- RiceWeedDetectorApp: state ---------------------- *)

\* "none": the thread is not running (never started, returned, or died)
PcValues == {"none", "test", "load", "read", "process",
             "throttle", "setlast", "display", "exit"}
\* the thread runs update_webcam and has not left its while loop
InLoop(p) == pc[p] \in {"test", "load", "read", "process",
                        "throttle", "setlast", "display"}

\* the parts of the program that are not running
InitOther ==
    /\ frame = [p \in Producers |-> None]
    /\ writing = [p \in Producers |-> None]
    /\ reading = None
    /\ inflight = [pc |-> "none"]
    /\ upload_pc = "none"

\* extract_frames_from_video is not called
NoExtract ==
    /\ video = 0
    /\ frames_per_image = 1
    /\ frame_count = 0
    /\ saved_image_count = 0
    /\ saved = <<>>
    /\ extract_pc = "none"
    /\ video_cap = "none"

\* __init__ (the detector loads or not), then show_home_page
InitSession ==
    /\ app_running = TRUE
    /\ current_user = FALSE
    /\ detector_model \in BOOLEAN
    /\ buttons_enabled = FALSE
    /\ controls_visible = FALSE
    /\ capture_enabled = FALSE
    /\ cap = None
    /\ openHandles = {}
    /\ opened = 0
    /\ webcam_running = FALSE
    /\ snapshot_mode = FALSE
    /\ realtime_mode = FALSE
    /\ current_webcam_frame = None
    /\ last_alert_time = NoTime
    /\ clock = 0
    /\ ticks = 0
    /\ pc = [p \in Producers |-> "none"]
    /\ capref = [p \in Producers |-> None]
    /\ cur = [p \in Producers |-> NoTime]
    /\ afterQ = <<>>
    /\ notifier = "none"
    /\ capture_pc = "none"
    /\ captured = <<>>
    /\ stop_from = <<>>
    /\ InitOther

InitApp == InitSession /\ NoExtract

Init ==
    /\ InitApp
    /\ recording = FALSE
    /\ det_in = NoCall
    /\ det_out = NoCall
    /\ det_prev = NoCall
    /\ confidence_threshold = DefaultThreshold
    /\ detector_loads = 1

(* ------------------------ consumer: the handlers ----------------------- *)

\* login: current_user is set and show_dashboard builds the dashboard anew,
\* its buttons enabled if the model is loaded, webcam_controls not packed
login ==
    /\ app_running /\ ~current_user
    /\ current_user' = TRUE
    /\ buttons_enabled' = detector_model
    /\ controls_visible' = FALSE
    /\ capture_enabled' = FALSE
    /\ UNCHANGED <<app_running, detector_model, sessionVars, opened, current_webcam_frame,
                   last_alert_time, clockVars, producerVars, afterQ, detVars, taskVars, histVars, otherVars>>

\* logout: show_home_page destroys the dashboard; the session is left as it is
logout ==
    /\ app_running /\ current_user
    /\ current_user' = FALSE
    /\ buttons_enabled' = FALSE
    /\ controls_visible' = FALSE
    /\ capture_enabled' = FALSE
    /\ UNCHANGED <<app_running, detector_model, sessionVars, opened, current_webcam_frame,
                   last_alert_time, clockVars, producerVars, afterQ, detVars, taskVars, histVars, otherVars>>

\* stop_webcam: what it assigns
stop_webcam_keeps_modes ==
    /\ webcam_running' = FALSE
    /\ openHandles' = openHandles \ {cap}
    /\ cap' = None
    /\ controls_visible' = FALSE
    /\ UNCHANGED <<snapshot_mode, realtime_mode>>
stop_webcam ==
    /\ webcam_running' = FALSE
    /\ openHandles' = openHandles \ {cap}      \* self.cap.release()
    /\ cap' = None
    /\ controls_visible' = FALSE               \* webcam_controls.pack_forget()
    /\ snapshot_mode' = FALSE
    /\ realtime_mode' = FALSE

\* start_webcam, called with snapshot_mode = snap: what it assigns
start_webcam(snap) ==
    IF webcam_running
    THEN UNCHANGED <<cap, openHandles, opened, webcam_running, controls_visible,
                     capture_enabled, pc>>
    ELSE \/ \* cv2.VideoCapture(0) raises: except ... showerror
            UNCHANGED <<cap, openHandles, opened, webcam_running, controls_visible,
                        capture_enabled, pc>>
         \/ \* the object is constructed and is not opened: showerror, return
            /\ cap' = Unopened
            /\ UNCHANGED <<openHandles, opened, webcam_running, controls_visible,
                           capture_enabled, pc>>
         \/ \* the device opens: the controls are shown and the thread is started
            /\ opened < MaxOpens
            /\ opened' = opened + 1
            /\ cap' = opened + 1
            /\ openHandles' = openHandles \cup {opened + 1}
            /\ webcam_running' = TRUE
            /\ controls_visible' = TRUE
            /\ capture_enabled' = (snap \/ capture_enabled)
            /\ pc' = [pc EXCEPT ![opened + 1] = "test"]

\* start_webcam_snapshot, the "Take Snapshot" button
start_webcam_snapshot_keeps_realtime ==
    /\ app_running /\ current_user /\ buttons_enabled
    /\ snapshot_mode' = TRUE
    /\ UNCHANGED realtime_mode
    /\ start_webcam(TRUE)
    /\ UNCHANGED <<app_running, current_user, detector_model, buttons_enabled,
                   current_webcam_frame, last_alert_time, clockVars, capref, cur,
                   afterQ, detVars, taskVars, histVars, otherVars>>
start_webcam_snapshot ==
    /\ app_running /\ current_user /\ buttons_enabled
    /\ snapshot_mode' = TRUE
    /\ realtime_mode' = FALSE
    /\ start_webcam(TRUE)
    /\ UNCHANGED <<app_running, current_user, detector_model, buttons_enabled,
                   current_webcam_frame, last_alert_time, clockVars, capref, cur,
                   afterQ, detVars, taskVars, histVars, otherVars>>

\* toggle_realtime_detection, the "Realtime Detection" button
toggle_realtime_detection ==
    /\ app_running /\ current_user /\ buttons_enabled
    /\ IF realtime_mode
       THEN /\ stop_webcam      \* then self.realtime_mode = False, as stop_webcam left it
            /\ UNCHANGED <<opened, capture_enabled, pc>>
       ELSE /\ snapshot_mode' = FALSE
            /\ realtime_mode' = TRUE
            /\ start_webcam(FALSE)
    /\ UNCHANGED <<app_running, current_user, detector_model, buttons_enabled,
                   current_webcam_frame, last_alert_time, clockVars, capref, cur,
                   afterQ, detVars, taskVars, histVars, otherVars>>

\* the "Stop Webcam" button, a child of webcam_controls
stop_button ==
    /\ app_running /\ current_user /\ controls_visible
    /\ stop_webcam
    /\ UNCHANGED <<app_running, current_user, detector_model, buttons_enabled,
                   capture_enabled, opened, current_webcam_frame, last_alert_time,
                   clockVars, producerVars, afterQ, detVars, taskVars, histVars, otherVars>>

\* Tk runs the oldest callback of the after queue: stop_webcam
run_after_stop ==
    /\ app_running
    /\ afterQ # <<>> /\ Head(afterQ) = "stop"
    /\ afterQ' = Tail(afterQ)
    /\ stop_from' = IF recording THEN Tail(stop_from) ELSE stop_from
    /\ stop_webcam
    /\ UNCHANGED <<app_running, current_user, detector_model, buttons_enabled,
                   capture_enabled, opened, current_webcam_frame, last_alert_time,
                   clockVars, producerVars, detVars, taskVars, captured, recording, otherVars>>

\* Tk runs the oldest callback of the after queue: update_webcam_display
update_webcam_display ==
    /\ app_running
    /\ afterQ # <<>> /\ Head(afterQ) = "display"
    /\ afterQ' = Tail(afterQ)
    /\ UNCHANGED <<app_running, uiVars, sessionVars, opened, current_webcam_frame,
                   last_alert_time, clockVars, producerVars, detVars, taskVars, histVars, otherVars>>

\* run: mainloop returns (the window is closed), then cap is released if it is
\* not None.  The process ends there: its daemon threads and the callbacks
\* still waiting go with it.
run_returns ==
    /\ app_running
    /\ app_running' = FALSE
    /\ openHandles' = openHandles \ {cap}
    /\ pc' = [p \in Producers |-> "none"]
    /\ capref' = [p \in Producers |-> None]
    /\ cur' = [p \in Producers |-> NoTime]
    /\ afterQ' = <<>>
    /\ notifier' = IF notifier = "running" THEN "none" ELSE notifier
    /\ capture_pc' = "none"
    /\ UNCHANGED <<uiVars, cap, webcam_running, snapshot_mode, realtime_mode, opened,
                   current_webcam_frame, last_alert_time, clockVars, detVars,
                   frameVars, inflight, extractVars>>
    /\ upload_pc' = "none"
    /\ captured' = <<>>
    /\ stop_from' = <<>>
    /\ UNCHANGED recording

(* --------------------- producer: update_webcam ------------------------- *)

goto(p, label) == pc' = [pc EXCEPT ![p] = label]

\* while self.webcam_running and self.cap is not None
loop_test(p) ==
    /\ app_running /\ pc[p] = "test"
    /\ goto(p, IF webcam_running /\ cap # None THEN "load" ELSE "exit")
    /\ UNCHANGED <<app_running, uiVars, sessionVars, opened, current_webcam_frame,
                   last_alert_time, clockVars, capref, cur, afterQ, detVars, taskVars, histVars, otherVars>>

\* self.cap.read: the attribute is fetched.  None has no read: the
\* AttributeError is caught nowhere and ends the thread.
load_cap(p) ==
    /\ app_running /\ pc[p] = "load"
    /\ IF cap = None
       THEN goto(p, "none") /\ UNCHANGED capref
       ELSE goto(p, "read") /\ capref' = [capref EXCEPT ![p] = cap]
    /\ UNCHANGED <<app_running, uiVars, sessionVars, opened, current_webcam_frame,
                   last_alert_time, clockVars, cur, afterQ, detVars, taskVars, histVars, otherVars>>

\* ret, frame = <the object>.read(); if not ret: break;
\* self.current_webcam_frame = frame.copy().  An object that does not hold the
\* device returns no frame; an open one returns one or fails.  (No handler both
\* releases a device and touches current_webcam_frame, so the store is taken
\* with the read.)
read_frame(p) ==
    /\ app_running /\ pc[p] = "read"
    /\ \E ret \in BOOLEAN :
          /\ ret => capref[p] \in openHandles
          /\ IF ret
             THEN /\ goto(p, "process") /\ current_webcam_frame' = Frame
                  /\ captured' = IF recording
                                  THEN Append(captured, [by |-> p, realtime |-> realtime_mode])
                                  ELSE captured
             ELSE goto(p, "exit") /\ UNCHANGED <<current_webcam_frame, captured>>
    /\ capref' = [capref EXCEPT ![p] = None]
    /\ UNCHANGED <<app_running, uiVars, sessionVars, opened,
                   last_alert_time, clockVars, cur, afterQ, detVars, taskVars, stop_from, recording, otherVars>>

\* What the realtime branch can meet when it calls detect_weeds on
\* temp_realtime.jpg: the file may be gone (another thread removed it).
FrameInputs ==
    [model_loaded : {TRUE},
     image : {"missing", "ok"},
     predict : {"error", "ok"},
     detections : {<<>>, <<[class_id |-> 1, confidence |-> 82]>>,
                   <<[class_id |-> 4, confidence |-> 82]>>},
     annot_ok : {TRUE}]
\* self.detector.detect_weeds(temp_path), for each of them
FrameResults == {detect_weeds(in) : in \in FrameInputs}

\* if self.realtime_mode and self.detector and self.detector.model: try: ...
\* An exception inside the try (imwrite, remove) is caught and printed.
process_frame_any_mode(p) ==
    /\ app_running /\ pc[p] = "process"
    /\ IF detector_model
       THEN \/ goto(p, "display")
            \/ \E result \in FrameResults :
                  goto(p, IF result.image # "None" /\ result.weed_detected
                          THEN "throttle" ELSE "display")
       ELSE goto(p, "display")
    /\ UNCHANGED <<app_running, uiVars, sessionVars, opened, current_webcam_frame,
                   last_alert_time, clockVars, capref, cur, afterQ, detVars, taskVars, histVars, otherVars>>
process_frame(p) ==
    /\ app_running /\ pc[p] = "process"
    /\ IF realtime_mode /\ detector_model
       THEN \/ \* an exception inside the try
               goto(p, "display")
            \/ \E result \in FrameResults :
                  goto(p, IF result.image # "None" /\ result.weed_detected
                          THEN "throttle" ELSE "display")
       ELSE goto(p, "display")
    /\ UNCHANGED <<app_running, uiVars, sessionVars, opened, current_webcam_frame,
                   last_alert_time, clockVars, capref, cur, afterQ, detVars, taskVars, histVars, otherVars>>

\* (current_time - self.last_alert_time).seconds
timedelta_seconds(delta) == delta % SecondsPerDay

\* the throttle's condition, for current_time = now
should_alert(last, now) ==
    last = NoTime \/ timedelta_seconds(now - last) > COOLDOWN

\* The clock is read only here, so its advance is taken here: datetime.now()
\* returns the last value plus what has elapsed since.  While no time is held
\* anywhere the clock stays at 0: only differences of times are ever used.
Elapsed == {0, COOLDOWN, COOLDOWN + 1, SecondsPerDay + 30}
TimeHeld == last_alert_time # NoTime \/ \E q \in Producers : cur[q] # NoTime

\* current_time = datetime.now(); if (self.last_alert_time is None or ...)
throttle_check(p) ==
    /\ app_running /\ pc[p] = "throttle"
    /\ \E d \in Elapsed :
          /\ d # 0 => (ticks < MaxTicks /\ TimeHeld)
          /\ clock' = clock + d
          /\ ticks' = IF d = 0 THEN ticks ELSE ticks + 1
          /\ cur' = [cur EXCEPT ![p] = clock + d]
          /\ goto(p, IF should_alert(last_alert_time, clock + d)
                     THEN "setlast" ELSE "display")
    /\ UNCHANGED <<app_running, uiVars, sessionVars, opened, current_webcam_frame,
                   last_alert_time, capref, afterQ, detVars, taskVars, histVars, otherVars>>

\* self.last_alert_time = current_time; threading.Thread(send_resend_email).start()
\* One send_resend_email thread is followed at a time.
throttle_permit(p) ==
    /\ app_running /\ pc[p] = "setlast"
    /\ notifier # "running"
    /\ last_alert_time' = cur[p]
    /\ cur' = [cur EXCEPT ![p] = NoTime]
    /\ notifier' = "running"
    /\ goto(p, "display")
    /\ UNCHANGED <<app_running, uiVars, sessionVars, opened, current_webcam_frame,
                   clockVars, capref, afterQ, detVars, capture_pc, histVars, otherVars>>

\* img.resize, ImageTk.PhotoImage, self.root.after(0, self.update_webcam_display,
\* photo): outside every try, so an exception here ends the thread
display_frame(p) ==
    /\ app_running /\ pc[p] = "display"
    /\ \/ /\ Len(afterQ) < MaxQueue
          /\ afterQ' = Append(afterQ, "display")
          /\ goto(p, "test")
       \/ /\ goto(p, "none")
          /\ UNCHANGED afterQ
    /\ cur' = [cur EXCEPT ![p] = NoTime]
    /\ captured' = SelectSeq(captured, LAMBDA e : e.by # p)
    /\ UNCHANGED <<app_running, uiVars, sessionVars, opened, current_webcam_frame,
                   last_alert_time, clockVars, capref, detVars, taskVars, stop_from, recording, otherVars>>

\* after the loop: self.root.after(0, self.stop_webcam)
post_stop_forgets(p) ==
    /\ app_running /\ pc[p] = "exit"
    /\ goto(p, "none")
    /\ UNCHANGED <<app_running, uiVars, sessionVars, opened, current_webcam_frame,
                   last_alert_time, clockVars, capref, cur, afterQ, detVars, taskVars, histVars, otherVars>>
post_stop(p) ==
    /\ app_running /\ pc[p] = "exit"
    /\ Len(afterQ) < MaxQueue
    /\ afterQ' = Append(afterQ, "stop")
    /\ stop_from' = IF recording THEN Append(stop_from, p) ELSE stop_from
    /\ goto(p, "none")
    /\ UNCHANGED <<app_running, uiVars, sessionVars, opened, current_webcam_frame,
                   last_alert_time, clockVars, capref, cur, detVars, taskVars, captured, recording, otherVars>>

(* ------------------- the notifier: send_resend_email ------------------- *)

\* How a send_resend_email thread ends.  self.users[self.current_user] is
\* outside the try: with no user logged in the KeyError ends the thread.
\* Inside the try, resend.Emails.send returns ("none": the thread is over and
\* the mail is out), or raises and the except prints.
NotifierOutcomes == IF current_user THEN {"none", "failed"} ELSE {"raised"}
send_resend_email_stops_webcam ==
    /\ app_running /\ notifier = "running"
    /\ \E outcome \in NotifierOutcomes :
          /\ notifier' = outcome
          /\ IF outcome = "none"
             THEN UNCHANGED webcam_running
             ELSE webcam_running' = FALSE
    /\ UNCHANGED <<app_running, uiVars, cap, openHandles, snapshot_mode, realtime_mode,
                   opened, current_webcam_frame, last_alert_time, clockVars,
                   producerVars, afterQ, detVars, capture_pc, histVars, otherVars>>
send_resend_email ==
    /\ app_running /\ notifier = "running"
    /\ \E outcome \in NotifierOutcomes : notifier' = outcome
    /\ UNCHANGED <<app_running, uiVars, sessionVars, opened, current_webcam_frame,
                   last_alert_time, clockVars, producerVars, afterQ, detVars, capture_pc, histVars, otherVars>>

(* --------------- the snapshot: capture_webcam_image -------------------- *)

\* The "Capture Image" button, a child of webcam_controls.  With no frame it
\* returns; else it starts a process_captured_image thread on a copy of the
\* frame.  One such thread is followed at a time.
capture_webcam_image_stops ==
    /\ app_running /\ current_user /\ controls_visible /\ capture_enabled
    /\ capture_pc = "none"
    /\ IF current_webcam_frame = None
       THEN UNCHANGED <<capture_pc, sessionVars, controls_visible>>
       ELSE capture_pc' = "save" /\ stop_webcam
    /\ UNCHANGED <<app_running, current_user, detector_model, buttons_enabled,
                   capture_enabled, opened, current_webcam_frame, last_alert_time,
                   clockVars, producerVars, afterQ, detVars, notifier, histVars, otherVars>>
capture_webcam_image ==
    /\ app_running /\ current_user /\ controls_visible /\ capture_enabled
    /\ capture_pc = "none"
    /\ capture_pc' = IF current_webcam_frame = None THEN "none" ELSE "save"
    /\ UNCHANGED <<app_running, uiVars, sessionVars, opened, current_webcam_frame,
                   last_alert_time, clockVars, producerVars, afterQ, detVars, notifier, histVars, otherVars>>

\* process_captured_image: pil_img.save(temp_path).  If it raises, the except
\* posts the error box and the thread ends.
capture_save ==
    /\ app_running /\ capture_pc = "save"
    /\ \/ capture_pc' = "detect" /\ UNCHANGED afterQ
       \/ /\ Len(afterQ) < MaxQueue
          /\ afterQ' = Append(afterQ, "error")
          /\ capture_pc' = "none"
    /\ UNCHANGED <<app_running, uiVars, sessionVars, opened, current_webcam_frame,
                   last_alert_time, clockVars, producerVars, detVars, notifier, histVars, otherVars>>

\* result = self.detector.detect_weeds(temp_path); os.remove; when the result
\* has an image, root.after(0, self.display_results, ...); the thread ends.
\* (self.detector is set whenever the button can be pressed.)
capture_detect ==
    /\ app_running /\ capture_pc = "detect"
    /\ capture_pc' = "none"
    /\ \E in \in FrameInputs :
          LET result == detect_weeds([in EXCEPT !.model_loaded = detector_model])
          IN  IF result.image = "None"
              THEN UNCHANGED afterQ
              ELSE /\ Len(afterQ) < MaxQueue
                   /\ afterQ' = Append(afterQ, IF result.weed_detected
                                                THEN "results_weed" ELSE "results_clean")
    /\ UNCHANGED <<app_running, uiVars, sessionVars, opened, current_webcam_frame,
                   last_alert_time, clockVars, producerVars, detVars, notifier, histVars, otherVars>>

\* Tk runs the oldest callback: display_results.  On a dashboard that logout
\* destroyed, image_frame.winfo_children() raises and nothing else runs.  For
\* a result with weeds it starts a send_resend_email thread.
display_results_throttled ==
    /\ app_running
    /\ afterQ # <<>> /\ Head(afterQ) \in {"results_weed", "results_clean"}
    /\ afterQ' = Tail(afterQ)
    /\ IF current_user /\ Head(afterQ) = "results_weed" /\ should_alert(last_alert_time, clock)
       THEN notifier # "running" /\ notifier' = "running" /\ last_alert_time' = clock
       ELSE UNCHANGED <<notifier, last_alert_time>>
    /\ UNCHANGED <<app_running, uiVars, sessionVars, opened, current_webcam_frame,
                   clockVars, producerVars, detVars, capture_pc, histVars, otherVars>>
display_results ==
    /\ app_running
    /\ afterQ # <<>> /\ Head(afterQ) \in {"results_weed", "results_clean"}
    /\ afterQ' = Tail(afterQ)
    /\ IF current_user /\ Head(afterQ) = "results_weed"
       THEN notifier # "running" /\ notifier' = "running"
       ELSE UNCHANGED notifier
    /\ UNCHANGED <<app_running, uiVars, sessionVars, opened, current_webcam_frame,
                   last_alert_time, clockVars, producerVars, detVars, capture_pc, histVars, otherVars>>

\* Tk runs the oldest callback: the error box of process_captured_image
\* has no effect on the state
show_error ==
    /\ app_running
    /\ afterQ # <<>> /\ Head(afterQ) = "error"
    /\ afterQ' = Tail(afterQ)
    /\ UNCHANGED <<app_running, uiVars, sessionVars, opened, current_webcam_frame,
                   last_alert_time, clockVars, producerVars, detVars, taskVars, histVars, otherVars>>

(* ---------------- the single image: upload_image ----------------------- *)

uploadRest == <<app_running, uiVars, sessionVars, opened, current_webcam_frame,
                last_alert_time, clockVars, producerVars, detVars, taskVars, histVars,
                frameVars, inflight, extractVars>>

\* The "Upload Image" button of the dashboard.  Without a model, without a
\* file or with a file that is no image it returns; else it starts a
\* process_image thread.  One such thread is followed at a time.
upload_image ==
    /\ app_running /\ current_user
    /\ upload_pc = "none"
    /\ \/ upload_pc' = "none"
       \/ detector_model /\ upload_pc' = "detect"
    /\ UNCHANGED <<uploadRest, afterQ>>

\* process_image: result = self.detector.detect_weeds(file_path); with an
\* image in the result, root.after(0, self.display_results, ...); else, or
\* when something raises, the error box is posted.
process_image ==
    /\ app_running /\ upload_pc = "detect"
    /\ upload_pc' = "none"
    /\ Len(afterQ) < MaxQueue
    /\ \/ afterQ' = Append(afterQ, "error")
       \/ \E result \in FrameResults :
             afterQ' = Append(afterQ, IF result.image = "None" THEN "error"
                                      ELSE IF result.weed_detected THEN "results_weed"
                                      ELSE "results_clean")
    /\ UNCHANGED uploadRest

(* --------------------------- specifications ---------------------------- *)

Next ==
    \/ login
    \/ logout
    \/ start_webcam_snapshot
    \/ toggle_realtime_detection
    \/ stop_button
    \/ run_after_stop
    \/ update_webcam_display
    \/ run_returns
    \/ send_resend_email
    \/ \E p \in Producers :
          \/ loop_test(p)
          \/ load_cap(p)
          \/ read_frame(p)
          \/ process_frame(p)
          \/ throttle_check(p)
          \/ throttle_permit(p)
          \/ display_frame(p)
          \/ post_stop(p)

Spec == Init /\ [][Next]_vars

\* The same program, with the history of frames and of deferred stops kept.
InitHistory ==
    /\ InitApp
    /\ recording = TRUE
    /\ det_in = NoCall
    /\ det_out = NoCall
    /\ det_prev = NoCall
    /\ confidence_threshold = DefaultThreshold
    /\ detector_loads = 1

SpecHistory == InitHistory /\ [][Next]_vars

\* Scheduling.  Tk's event loop runs a callback that waits at the head of the
\* after queue; a thread that is ready to post a callback gets to post it (the
\* real queue is not bounded).
SpecFair ==
    /\ Init /\ [][Next]_vars
    /\ WF_vars(run_after_stop)
    /\ WF_vars(update_webcam_display)
    /\ \A p \in Producers : SF_vars(post_stop(p))

\* The snapshot path: sessions started with "Take Snapshot", their producers,
\* and the capture of images from them.
NextSnapshot ==
    \/ login
    \/ logout
    \/ start_webcam_snapshot
    \/ stop_button
    \/ run_after_stop
    \/ update_webcam_display
    \/ run_returns
    \/ capture_webcam_image
    \/ capture_save
    \/ capture_detect
    \/ display_results
    \/ show_error
    \/ send_resend_email
    \/ \E p \in Producers :
          \/ loop_test(p)
          \/ load_cap(p)
          \/ read_frame(p)
          \/ process_frame(p)
          \/ display_frame(p)
          \/ post_stop(p)

SpecSnapshot == Init /\ [][NextSnapshot]_vars

\* The single-image path next to realtime sessions.
NextUpload ==
    \/ login
    \/ logout
    \/ toggle_realtime_detection
    \/ stop_button
    \/ run_after_stop
    \/ update_webcam_display
    \/ run_returns
    \/ upload_image
    \/ process_image
    \/ display_results
    \/ show_error
    \/ send_resend_email
    \/ \E p \in Producers :
          \/ loop_test(p)
          \/ load_cap(p)
          \/ read_frame(p)
          \/ process_frame(p)
          \/ throttle_check(p)
          \/ throttle_permit(p)
          \/ display_frame(p)
          \/ post_stop(p)

SpecUpload == Init /\ [][NextUpload]_vars

(* ------------------- specification of one detect_weeds call ------------ *)

\* a detector after __init__, about to be called on some image
InitDetect ==
    /\ InitApp
    /\ recording = FALSE
    /\ det_in \in DetectInputs
    /\ det_in.model_loaded = detector_model
    /\ det_out = NoCall
    /\ det_prev = NoCall
    /\ confidence_threshold = DefaultThreshold
    /\ detector_loads = 1

\* result = self.detector.detect_weeds(path)
call_detect_weeds ==
    /\ det_out = NoCall
    /\ det_out' = detect_weeds(det_in)
    /\ UNCHANGED <<app_running, uiVars, sessionVars, opened, current_webcam_frame,
                   last_alert_time, clockVars, producerVars, afterQ, det_in, det_prev,
                   confidence_threshold, detector_loads, taskVars, histVars, otherVars>>

NextDetect == call_detect_weeds

SpecDetect == InitDetect /\ [][NextDetect]_vars

(* ------------------ specification of one is_weed_class call ----------- *)

\* Class labels: a word with something before and after it.  The words are the
\* keywords in several cases, words that miss a keyword by one character, and
\* other words; "w" + "eed" and "gras" + "s" make a keyword across the joint.
Prefixes == {<<>>, <<"w">>, <<"R","_">>}
Words ==
    {<<"w","e","e","d">>, <<"W","E","E","D">>, <<"W","e","e","d">>,
     <<"u","n","w","a","n","t","e","d">>, <<"U","n","W","a","N","t","E","d">>,
     <<"i","n","v","a","s","i","v","e">>, <<"I","N","V","A","S","I","V","E">>,
     <<"p","e","s","t">>, <<"P","e","s","t">>,
     <<"g","r","a","s","s">>, <<"G","R","A","S","S">>,
     <<"e","e","d">>, <<"w","e","_","e","d">>, <<"u","n","w","a","n","t">>,
     <<"i","n","v","a","s","i","v">>, <<"p","e","s">>, <<"g","r","a","s">>,
     <<"G","R","A","S">>, <<"r","i","c","e">>, <<"R","I","C","E">>,
     <<"p","a","d","d","y">>, <<>>}
Suffixes == {<<>>, <<"s">>, <<"_","G","r","a","i","n">>}
Labels ==
    {p \o w \o x : p \in Prefixes, w \in Words, x \in Suffixes}
       \cup {names[i] : i \in DOMAIN names}

\* a detector, and a label about to be classified
InitClassify ==
    /\ InitApp
    /\ recording = FALSE
    /\ det_in \in {[class_name |-> l] : l \in Labels}
    /\ det_out = NoCall
    /\ det_prev = NoCall
    /\ confidence_threshold = DefaultThreshold
    /\ detector_loads = 1

\* self.is_weed_class(class_name)
call_is_weed_class ==
    /\ det_out = NoCall
    /\ det_out' = [is_weed |-> is_weed_class(det_in.class_name)]
    /\ UNCHANGED <<app_running, uiVars, sessionVars, opened, current_webcam_frame,
                   last_alert_time, clockVars, producerVars, afterQ, det_in, det_prev,
                   confidence_threshold, detector_loads, taskVars, histVars, otherVars>>

NextClassify == call_is_weed_class

SpecClassify == InitClassify /\ [][NextClassify]_vars

(* -------------- specification of a detector over its calls ------------ *)

\* min(1.0, new_threshold)
min(a, b) == IF a <= b THEN a ELSE b

\* The image files: for each path, what the loaded model finds in the image
\* at any confidence.  self.model.predict(source=image, conf=...) returns the
\* boxes whose confidence reaches conf.
Images ==
    << <<[class_id |-> 4, confidence |-> 82], [class_id |-> 2, confidence |-> 60]>>,
       <<[class_id |-> 1, confidence |-> 95]>> >>
keeps(conf, d) == d.confidence >= conf
model_predict(found, conf) == SelectSeq(found, LAMBDA d : keeps(conf, d))

\* how the stages of one call go: the file does not open, the prediction or
\* the conversion raises, the annotators raise, or nothing fails (DetectInputs
\* has the rest)
CallEnvs ==
    {e \in [image : {"unreadable", "ok"}, predict : {"error", "convert_error", "ok"},
            annot_ok : BOOLEAN] :
        /\ e.image # "ok" => (e.predict = "ok" /\ e.annot_ok)
        /\ e.predict # "ok" => e.annot_ok}

\* YOLOv11WeedDetector.__init__: whether self.model is set after it.  The given
\* path is loaded if the file exists, else the default model is fetched; an
\* exception (the load, the annotators) leaves self.model = None.
LoadEnvs ==
    [path_exists : BOOLEAN, load_ok : BOOLEAN, fallback_ok : BOOLEAN,
     annotators_ok : BOOLEAN]
construct(e) ==
    /\ IF e.path_exists THEN e.load_ok ELSE e.fallback_ok
    /\ e.annotators_ok

\* initialize_detector: the detector it leaves in self.detector, and the
\* constructions it made (a second one when best.pt exists and did not load)
initialize_detector(e1, e2) ==
    IF e1.path_exists /\ ~construct(e1)
    THEN [model |-> construct(e2), loads |-> 2]
    ELSE [model |-> construct(e1), loads |-> 1]

\* what initialize_detector can leave (best.pt is there for both
\* constructions or for none)
Initialized ==
    UNION {{initialize_detector(e1, e2) :
               e2 \in {e \in LoadEnvs : e.path_exists = e1.path_exists}} :
           e1 \in LoadEnvs}

\* RiceWeedDetectorApp.__init__ up to initialize_detector; no call yet
InitDetector ==
    /\ InitApp
    /\ recording = FALSE
    /\ \E d \in Initialized :
          /\ detector_model = d.model
          /\ detector_loads = d.loads
    /\ confidence_threshold = DefaultThreshold
    /\ det_in = NoCall
    /\ det_out = NoCall
    /\ det_prev = NoCall

\* what a call meets: the detector's fields and the environment of the call
CallInput(path, e) ==
    [model_loaded |-> detector_model,
     image |-> e.image,
     predict |-> e.predict,
     detections |-> model_predict(Images[path], confidence_threshold),
     annot_ok |-> e.annot_ok,
     image_path |-> path,
     conf |-> confidence_threshold,
     model_id |-> detector_loads]

\* result = self.detector.detect_weeds(path): the call assigns no field of
\* the detector
detect_weeds_call_drops_model ==
    \E path \in DOMAIN Images, e \in CallEnvs :
       /\ det_prev' = IF det_out = NoCall THEN NoCall ELSE [in |-> det_in, out |-> det_out]
       /\ det_in' = CallInput(path, e)
       /\ det_out' = detect_weeds(CallInput(path, e))
       /\ detector_model' = (detector_model /\ e.predict = "ok")
       /\ UNCHANGED <<app_running, current_user, buttons_enabled, controls_visible,
                      capture_enabled, sessionVars, opened, current_webcam_frame,
                      last_alert_time, clockVars, producerVars, afterQ,
                      confidence_threshold, detector_loads, taskVars, histVars, otherVars>>
detect_weeds_call_keeps_count ==
    \E path \in DOMAIN Images, e \in CallEnvs :
       /\ det_prev' = IF det_out = NoCall THEN NoCall ELSE [in |-> det_in, out |-> det_out]
       /\ det_in' = CallInput(path, e)
       /\ det_out' = IF det_out = NoCall
                     THEN detect_weeds(CallInput(path, e))
                     ELSE [detect_weeds(CallInput(path, e)) EXCEPT
                              !.weed_count = @ + det_out.weed_count]
       /\ UNCHANGED <<app_running, uiVars, sessionVars, opened, current_webcam_frame,
                      last_alert_time, clockVars, producerVars, afterQ,
                      confidence_threshold, detector_loads, taskVars, histVars, otherVars>>
detect_weeds_call_retries_load ==
    \E path \in DOMAIN Images, e \in CallEnvs :
       /\ det_prev' = IF det_out = NoCall THEN NoCall ELSE [in |-> det_in, out |-> det_out]
       /\ det_in' = CallInput(path, e)
       /\ det_out' = detect_weeds(CallInput(path, e))
       /\ IF detector_model \/ detector_loads >= MaxLoads
          THEN UNCHANGED <<detector_model, detector_loads>>
          ELSE /\ detector_model' \in BOOLEAN
               /\ detector_loads' = detector_loads + 1
       /\ UNCHANGED <<app_running, current_user, buttons_enabled, controls_visible,
                      capture_enabled, sessionVars, opened, current_webcam_frame,
                      last_alert_time, clockVars, producerVars, afterQ,
                      confidence_threshold, taskVars, histVars, otherVars>>
detect_weeds_call ==
    \E path \in DOMAIN Images, e \in CallEnvs :
       /\ det_prev' = IF det_out = NoCall THEN NoCall ELSE [in |-> det_in, out |-> det_out]
       /\ det_in' = CallInput(path, e)
       /\ det_out' = detect_weeds(CallInput(path, e))
       /\ UNCHANGED <<app_running, uiVars, sessionVars, opened, current_webcam_frame,
                      last_alert_time, clockVars, producerVars, afterQ,
                      confidence_threshold, detector_loads, taskVars, histVars, otherVars>>

\* update_confidence_threshold(new_threshold)
NewThresholds == {5, 90, 150}
update_confidence_threshold_as_given(new_threshold) ==
    /\ confidence_threshold' = new_threshold
    /\ UNCHANGED <<app_running, uiVars, sessionVars, opened, current_webcam_frame,
                   last_alert_time, clockVars, producerVars, afterQ,
                   det_in, det_out, det_prev, detector_loads, taskVars, histVars, otherVars>>
update_confidence_threshold(new_threshold) ==
    /\ confidence_threshold' = max(10, min(100, new_threshold))
    /\ UNCHANGED <<app_running, uiVars, sessionVars, opened, current_webcam_frame,
                   last_alert_time, clockVars, producerVars, afterQ,
                   det_in, det_out, det_prev, detector_loads, taskVars, histVars, otherVars>>

\* reload_model: initialize_detector builds a new detector, with the default
\* threshold
reload_model ==
    /\ detector_loads < MaxLoads
    /\ \E d \in Initialized :
          /\ detector_model' = d.model
          /\ detector_loads' = detector_loads + d.loads
    /\ confidence_threshold' = DefaultThreshold
    /\ UNCHANGED <<app_running, current_user, buttons_enabled, controls_visible,
                   capture_enabled, sessionVars, opened, current_webcam_frame,
                   last_alert_time, clockVars, producerVars, afterQ,
                   det_in, det_out, det_prev, taskVars, histVars, otherVars>>

NextDetector ==
    \/ detect_weeds_call
    \/ \E new_threshold \in NewThresholds : update_confidence_threshold(new_threshold)
    \/ reload_model

SpecDetector == InitDetector /\ [][NextDetector]_vars

(* -------- detect_weeds next to update_confidence_threshold ------------- *)

\* One detect_weeds call, step by step, while other threads update the
\* threshold.  inflight keeps, for the call, the threshold at its start and
\* the one handed to predict.

\* the call starts: if self.model is None it returns at once
detect_weeds_begin ==
    /\ inflight.pc \in {"none", "returned"}
    /\ \E path \in DOMAIN Images, e \in CallEnvs :
          IF ~detector_model
          THEN /\ inflight' = [pc |-> "none"]
               /\ det_in' = CallInput(path, e)
               /\ det_out' = detect_weeds(CallInput(path, e))
          ELSE /\ inflight' = [pc |-> "open", image_path |-> path, env |-> e,
                               at_start |-> confidence_threshold]
               /\ UNCHANGED <<det_in, det_out>>
    /\ UNCHANGED <<app_running, uiVars, sessionVars, opened, current_webcam_frame,
                   last_alert_time, clockVars, producerVars, afterQ, det_prev,
                   confidence_threshold, detector_loads, taskVars, histVars,
                   frameVars, upload_pc, extractVars>>

\* os.path.exists, Image.open, convert: a file that does not open ends the call
detect_weeds_open ==
    /\ inflight.pc = "open"
    /\ IF inflight.env.image # "ok"
       THEN /\ inflight' = [pc |-> "none"]
            /\ det_in' = CallInput(inflight.image_path, inflight.env)
            /\ det_out' = detect_weeds(CallInput(inflight.image_path, inflight.env))
       ELSE /\ inflight' = [inflight EXCEPT !.pc = "predict"]
            /\ UNCHANGED <<det_in, det_out>>
    /\ UNCHANGED <<app_running, uiVars, sessionVars, opened, current_webcam_frame,
                   last_alert_time, clockVars, producerVars, afterQ, det_prev,
                   confidence_threshold, detector_loads, taskVars, histVars,
                   frameVars, upload_pc, extractVars>>

\* self.model.predict(source=image, conf=self.confidence_threshold, ...) and
\* the rest of the call: the attribute is read here
detect_weeds_predict ==
    /\ inflight.pc = "predict"
    /\ inflight' = [pc |-> "returned", at_start |-> inflight.at_start,
                    used |-> confidence_threshold]
    /\ det_in' = CallInput(inflight.image_path, inflight.env)
    /\ det_out' = detect_weeds(CallInput(inflight.image_path, inflight.env))
    /\ UNCHANGED <<app_running, uiVars, sessionVars, opened, current_webcam_frame,
                   last_alert_time, clockVars, producerVars, afterQ, det_prev,
                   confidence_threshold, detector_loads, taskVars, histVars,
                   frameVars, upload_pc, extractVars>>

NextInflight ==
    \/ detect_weeds_begin
    \/ detect_weeds_open
    \/ detect_weeds_predict
    \/ \E new_threshold \in NewThresholds : update_confidence_threshold(new_threshold)

SpecInflight == InitDetector /\ [][NextInflight]_vars

(* ------------- the arrays of update_webcam and of the capture --------- *)

\* What update_webcam does with arrays in one cycle, next to
\* capture_webcam_image reading current_webcam_frame.  An array is a number;
\* a call that builds an array fills it between its begin and its end.
Arrays == 1..MaxArrays

\* something refers to the array: it is not collected
Referenced(a) ==
    \/ current_webcam_frame = a
    \/ reading = a
    \/ \E q \in Producers : frame[q] = a \/ writing[q] = a

\* a new array (the lowest number not in use)
NewArray == CHOOSE a \in Arrays : ~Referenced(a) /\ \A b \in 1..(a - 1) : Referenced(b)

frameRest == <<app_running, uiVars, sessionVars, opened, last_alert_time, clockVars,
               capref, cur, afterQ, detVars, notifier, histVars, inflight, upload_pc,
               extractVars>>

\* cap.read() starts: it fills a new array
cap_read_begin(p) ==
    /\ pc[p] = "read"
    /\ \E a \in Arrays : ~Referenced(a)
    /\ writing' = [writing EXCEPT ![p] = NewArray]
    /\ goto(p, "reading")
    /\ UNCHANGED <<frameRest, frame, reading, current_webcam_frame, capture_pc>>

\* ret, frame = ...: cap.read() returns; if not ret: break
cap_read_end(p) ==
    /\ pc[p] = "reading"
    /\ \/ /\ frame' = [frame EXCEPT ![p] = writing[p]]
          /\ goto(p, "copy")
       \/ /\ frame' = [frame EXCEPT ![p] = None]
          /\ goto(p, "none")
    /\ writing' = [writing EXCEPT ![p] = None]
    /\ UNCHANGED <<frameRest, reading, current_webcam_frame, capture_pc>>

\* frame.copy() starts: it fills a new array
frame_copy_begin_published(p) ==
    /\ pc[p] = "copy"
    /\ \E a \in Arrays : ~Referenced(a)
    /\ writing' = [writing EXCEPT ![p] = NewArray]
    /\ current_webcam_frame' = NewArray
    /\ goto(p, "copying")
    /\ UNCHANGED <<frameRest, frame, reading, capture_pc>>
frame_copy_begin(p) ==
    /\ pc[p] = "copy"
    /\ \E a \in Arrays : ~Referenced(a)
    /\ writing' = [writing EXCEPT ![p] = NewArray]
    /\ goto(p, "copying")
    /\ UNCHANGED <<frameRest, frame, reading, current_webcam_frame, capture_pc>>

\* self.current_webcam_frame = <the copy>: frame.copy() has returned
frame_copy_store(p) ==
    /\ pc[p] = "copying"
    /\ current_webcam_frame' = writing[p]
    /\ writing' = [writing EXCEPT ![p] = None]
    /\ goto(p, "convert")
    /\ UNCHANGED <<frameRest, frame, reading, capture_pc>>

\* frame_rgb = cv2.cvtColor(frame, ...) starts: it reads frame and fills a new array
cvtColor_begin(p) ==
    /\ pc[p] = "convert"
    /\ \E a \in Arrays : ~Referenced(a)
    /\ writing' = [writing EXCEPT ![p] = NewArray]
    /\ goto(p, "converting")
    /\ UNCHANGED <<frameRest, frame, reading, current_webcam_frame, capture_pc>>

\* cvtColor returns; the rest of the cycle works on img, built from frame_rgb,
\* and the loop comes back to cap.read() with frame still bound
cvtColor_end(p) ==
    /\ pc[p] = "converting"
    /\ writing' = [writing EXCEPT ![p] = None]
    /\ goto(p, "read")
    /\ UNCHANGED <<frameRest, frame, reading, current_webcam_frame, capture_pc>>

\* capture_webcam_image: if self.current_webcam_frame is None: return
capture_check ==
    /\ capture_pc = "none"
    /\ capture_pc' = IF current_webcam_frame = None THEN "none" ELSE "convert"
    /\ UNCHANGED <<frameRest, pc, frame, writing, reading, current_webcam_frame>>

\* cv2.cvtColor(self.current_webcam_frame, ...) starts: the attribute is read
\* again and the array it refers to is read by the call
capture_cvtColor_begin ==
    /\ capture_pc = "convert"
    /\ reading' = current_webcam_frame
    /\ capture_pc' = "converting"
    /\ UNCHANGED <<frameRest, pc, frame, writing, current_webcam_frame>>

\* the call returns frame_rgb; the thread started next works on pil_img
capture_cvtColor_end ==
    /\ capture_pc = "converting"
    /\ reading' = None
    /\ capture_pc' = "none"
    /\ UNCHANGED <<frameRest, pc, frame, writing, current_webcam_frame>>

\* a snapshot session opened after another was stopped, the thread of the
\* first still in its loop: both are about to read from the device
InitFrame ==
    /\ app_running = TRUE
    /\ current_user = TRUE
    /\ detector_model = TRUE
    /\ buttons_enabled = TRUE
    /\ controls_visible = TRUE
    /\ capture_enabled = TRUE
    /\ cap = MaxOpens
    /\ openHandles = {MaxOpens}
    /\ opened = MaxOpens
    /\ webcam_running = TRUE
    /\ snapshot_mode = TRUE
    /\ realtime_mode = FALSE
    /\ current_webcam_frame = None
    /\ last_alert_time = NoTime
    /\ clock = 0
    /\ ticks = 0
    /\ pc = [p \in Producers |-> "read"]
    /\ capref = [p \in Producers |-> MaxOpens]
    /\ cur = [p \in Producers |-> NoTime]
    /\ afterQ = <<>>
    /\ notifier = "none"
    /\ capture_pc = "none"
    /\ captured = <<>>
    /\ stop_from = <<>>
    /\ recording = FALSE
    /\ InitOther
    /\ NoExtract
    /\ det_in = NoCall
    /\ det_out = NoCall
    /\ det_prev = NoCall
    /\ confidence_threshold = DefaultThreshold
    /\ detector_loads = 1

NextFrame ==
    \/ capture_check
    \/ capture_cvtColor_begin
    \/ capture_cvtColor_end
    \/ \E p \in Producers :
          \/ cap_read_begin(p)
          \/ cap_read_end(p)
          \/ frame_copy_begin(p)
          \/ frame_copy_store(p)
          \/ cvtColor_begin(p)
          \/ cvtColor_end(p)

SpecFrame == InitFrame /\ [][NextFrame]_vars

(* --------------- seperate.py: extract_frames_from_video ---------------- *)

\* the application and the detector are not involved
appVars == <<app_running, uiVars, sessionVars, opened, current_webcam_frame,
             last_alert_time, clockVars, producerVars, afterQ, detVars, taskVars,
             histVars, frameVars, inflight, upload_pc>>

\* cap = cv2.VideoCapture(video_path); if not cap.isOpened(): return;
\* frame_count = 0; saved_image_count = 0
extract_open ==
    /\ extract_pc = "open"
    /\ \/ video_cap' = "none" /\ extract_pc' = "returned"
       \/ video_cap' = "open" /\ extract_pc' = "read"
    /\ frame_count' = 0
    /\ saved_image_count' = 0
    /\ UNCHANGED <<appVars, video, frames_per_image, saved>>

\* ret, frame = cap.read(); if not ret: break
extract_read ==
    /\ extract_pc = "read"
    /\ extract_pc' = IF frame_count < video THEN "check" ELSE "release"
    /\ UNCHANGED <<appVars, video, frames_per_image, frame_count, saved_image_count,
                   saved, video_cap>>

\* if frame_count % frames_per_image == 0: imwrite(frame_<saved_image_count>),
\* saved_image_count += 1;  frame_count += 1
extract_check_skips_first ==
    /\ extract_pc = "check"
    /\ IF (frame_count + 1) % frames_per_image = 0
       THEN /\ saved' = Append(saved, [file |-> saved_image_count, frame |-> frame_count])
            /\ saved_image_count' = saved_image_count + 1
       ELSE UNCHANGED <<saved, saved_image_count>>
    /\ frame_count' = frame_count + 1
    /\ extract_pc' = "read"
    /\ UNCHANGED <<appVars, video, frames_per_image, video_cap>>
extract_check ==
    /\ extract_pc = "check"
    /\ IF frame_count % frames_per_image = 0
       THEN /\ saved' = Append(saved, [file |-> saved_image_count, frame |-> frame_count])
            /\ saved_image_count' = saved_image_count + 1
       ELSE UNCHANGED <<saved, saved_image_count>>
    /\ frame_count' = frame_count + 1
    /\ extract_pc' = "read"
    /\ UNCHANGED <<appVars, video, frames_per_image, video_cap>>

\* cap.release(); cv2.destroyAllWindows(); the function returns
extract_release ==
    /\ extract_pc = "release"
    /\ video_cap' = "released"
    /\ extract_pc' = "returned"
    /\ UNCHANGED <<appVars, video, frames_per_image, frame_count, saved_image_count, saved>>

\* a call extract_frames_from_video(video_path, frames_per_image) on a file
\* that yields `video` frames before a read fails
InitExtract ==
    /\ InitSession
    /\ detector_model
    /\ recording = FALSE
    /\ det_in = NoCall
    /\ det_out = NoCall
    /\ det_prev = NoCall
    /\ confidence_threshold = DefaultThreshold
    /\ detector_loads = 1
    /\ video \in 0..MaxFrames
    /\ frames_per_image \in 1..MaxFramesPerImage
    /\ frame_count = 0
    /\ saved_image_count = 0
    /\ saved = <<>>
    /\ extract_pc = "open"
    /\ video_cap = "none"

NextExtract ==
    \/ extract_open
    \/ extract_read
    \/ extract_check
    \/ extract_release

SpecExtract == InitExtract /\ [][NextExtract]_vars

(* ------------------------------- claims -------------------------------- *)

\* the Closed state of the capture session
Closed ==
    /\ ~webcam_running
    /\ cap = None
    /\ openHandles = {}
    /\ ~snapshot_mode
    /\ ~realtime_mode

\* a handler that calls stop_webcam runs
StopInvoked ==
    \/ stop_button
    \/ run_after_stop
    \/ (realtime_mode /\ toggle_realtime_detection)

\* C1: from every reachable session state, a call of stop_webcam ends in the
\* Closed state (not running, device released and cap None, both mode flags
\* false); called in the Closed state it changes nothing (but the callback
\* queue it was taken from).
C1_StopReachesClosed ==
    [][StopInvoked =>
          /\ Closed'
          /\ Closed => UNCHANGED <<app_running, uiVars, sessionVars, opened,
                                   current_webcam_frame, last_alert_time, clockVars,
                                   producerVars, detVars>>]_vars

\* C1 witness: a session was opened, frames were captured, and it is Closed
\* again while its producer is still inside update_webcam.
C1_Witness ==
    /\ Closed
    /\ opened > 0
    /\ current_webcam_frame = Frame
    /\ \E p \in Producers : InLoop(p)

\* C2: when no producer is left and no deferred stop_webcam is waiting, the
\* device is released and webcam_running is false; after shutdown the device is
\* released.
C2_ReleasedWhenProducersGone ==
    /\ (app_running /\ (\A p \in Producers : pc[p] = "none")
          /\ (\A i \in DOMAIN afterQ : afterQ[i] # "stop"))
       => (~webcam_running /\ openHandles = {})
    /\ ~app_running => openHandles = {}

\* C3: a start from the Closed state on which the device does not open leaves
\* the session Closed: not running, no device held, both mode flags false, no
\* producer started.
C3_FailedOpenLeavesClosed ==
    [][(Closed /\ (start_webcam_snapshot \/ toggle_realtime_detection)
          /\ ~webcam_running')
       => /\ openHandles' = {}
          /\ ~snapshot_mode'
          /\ ~realtime_mode'
          /\ pc' = pc]_vars

\* C4: two producers are never both between a passed throttle check and the
\* update of last_alert_time with times in the same cooldown window.
C4_ThrottleIsAtomic ==
    \A p, q \in Producers :
        (p # q /\ pc[p] = "setlast" /\ pc[q] = "setlast")
        => (cur[p] - cur[q] > COOLDOWN \/ cur[q] - cur[p] > COOLDOWN)

\* C5: a triggered frame handled at time now is permitted exactly when
\* last_alert_time is empty or now - last_alert_time exceeds 60 seconds.
C5_PermitIffElapsed ==
    [][\A p \in Producers :
          throttle_check(p) =>
             ((pc'[p] = "setlast")
                <=> (last_alert_time = NoTime
                       \/ cur'[p] - last_alert_time > COOLDOWN))]_vars

\* C6: last_alert_time is set to the frame's time on a permit and unchanged on
\* a denial, and an alert is dispatched more than 60 seconds after the alert
\* dispatched before it (whose time last_alert_time holds).
C6_AlertsApart ==
    [][\A p \in Producers :
          /\ throttle_check(p) => last_alert_time' = last_alert_time
          /\ throttle_permit(p) =>
                /\ last_alert_time' = cur[p]
                /\ last_alert_time # NoTime => cur[p] - last_alert_time > COOLDOWN]_vars

\* C7: a producer whose session was stopped does not pass its loop condition
\* again.  Producer p was started for VideoCapture object p, and only
\* stop_webcam takes cap away from it: when p passes the condition, cap is p.
C7_StoppedProducerLeaves ==
    [][\A p \in Producers : (loop_test(p) /\ pc'[p] = "load") => cap = p]_vars

\* C8: at most one device handle is open, and no two producers read from the
\* same open device.
C8_OneSessionOneProducer ==
    /\ Cardinality(openHandles) <= 1
    /\ \A p, q \in Producers :
          (pc[p] = "read" /\ pc[q] = "read" /\ capref[p] = capref[q]
             /\ capref[p] \in openHandles)
          => p = q

\* C9: snapshot_mode and realtime_mode are never both true.
C9_ModesExclusive == ~(snapshot_mode /\ realtime_mode)

\* C9 witness: a session that dispatched a realtime alert is now running in
\* snapshot mode, switched over by start_webcam_snapshot.
C9_Witness ==
    /\ webcam_running
    /\ snapshot_mode
    /\ last_alert_time # NoTime

\* The detections of a call, as section 4.1 of the specification has them: a
\* failed stage leaves the call with none.
CallDetections(in) ==
    IF in.model_loaded /\ in.image = "ok" /\ in.predict = "ok"
    THEN in.detections ELSE <<>>
\* a detection's class label satisfies is_weed_class
IsTarget(d) == d.class_id \in DOMAIN names /\ is_weed_class(names[d.class_id])
Targets(in) == {i \in DOMAIN CallDetections(in) : IsTarget(CallDetections(in)[i])}

\* C10: the count is the number of the call's detections whose label satisfies
\* is_weed_class, max_confidence is the greatest confidence among those (0 when
\* there are none, and only then), weed_detected holds iff the count is at
\* least 1; no detection gives (False, 0, 0.0), one invasive_grass detection at
\* 0.82 gives (True, 1, 0.82).
C10_CountAndMax ==
    det_out # NoCall =>
       LET dets == CallDetections(det_in)
           T == Targets(det_in)
       IN  /\ det_out.weed_count = Cardinality(T)
           /\ T = {} => det_out.max_confidence = 0
           /\ T # {} =>
                 /\ \E i \in T : det_out.max_confidence = dets[i].confidence
                 /\ \A i \in T : det_out.max_confidence >= dets[i].confidence
           /\ det_out.max_confidence = 0 => T = {}
           /\ det_out.weed_detected <=> det_out.weed_count >= 1
           /\ dets = <<>> =>
                 /\ ~det_out.weed_detected
                 /\ det_out.weed_count = 0
                 /\ det_out.max_confidence = 0
           /\ dets = <<[class_id |-> 4, confidence |-> 82]>> =>
                 /\ det_out.weed_detected
                 /\ det_out.weed_count = 1
                 /\ det_out.max_confidence = 82

\* C10 witness: a call returned for two detections of which one is a weed.
C10_Witness ==
    /\ det_out # NoCall
    /\ Len(CallDetections(det_in)) = 2
    /\ det_out.weed_count = 1
    /\ det_out.max_confidence = 82

\* the unavailable outcome
Unavailable == Result("None", FALSE, 0, 0)
\* a stage before inference fails: no model, no file, or a file that does not open
FatalBeforeInference(in) == ~in.model_loaded \/ in.image # "ok"

\* C11: with no model, a missing image or an image that does not open,
\* detect_weeds returns (None, False, 0, 0.0) and has not run the prediction;
\* no result has no image together with a verdict, a count or a confidence.
C11_UnavailableBeforeInference ==
    det_out # NoCall =>
       /\ FatalBeforeInference(det_in) =>
             /\ det_out = Unavailable
             /\ \A i \in DOMAIN stages(det_in) : stages(det_in)[i] # "predict"
       /\ det_out.image = "None" => det_out = Unavailable

\* C11 witness: a call returned for an image that does not open and on which
\* the prediction would have found a weed.
C11_Witness ==
    /\ det_out # NoCall
    /\ det_in.model_loaded
    /\ det_in.image = "unreadable"
    /\ det_in.predict = "ok"
    /\ \E i \in DOMAIN det_in.detections : IsTarget(det_in.detections[i])
    /\ det_out = Unavailable

\* the call reaches the annotation and the annotators raise
AnnotationFails(in) ==
    /\ in.model_loaded /\ in.image = "ok" /\ in.predict = "ok"
    /\ Len(in.detections) > 0
    /\ \/ ~in.annot_ok
       \/ \E i \in DOMAIN in.detections : in.detections[i].class_id \notin DOMAIN names

\* C13: when the annotation fails, the call returns the original image, and
\* the verdict, count and confidence of the same call with working annotators
\* (which are those of the call's target detections).
C13_AnnotationFailureKeepsVerdict ==
    (det_out # NoCall /\ AnnotationFails(det_in)) =>
       LET good == detect_weeds([det_in EXCEPT !.annot_ok = TRUE])
           T == Targets(det_in)
       IN  /\ det_out.image = "image"
           /\ det_out.weed_detected = good.weed_detected
           /\ det_out.weed_count = good.weed_count
           /\ det_out.max_confidence = good.max_confidence
           /\ det_out.weed_count = Cardinality(T)
           /\ det_out.weed_detected <=> T # {}

\* C13 witness: the annotators raised on a call that found a weed.
C13_Witness ==
    /\ det_out # NoCall
    /\ AnnotationFails(det_in)
    /\ ~det_in.annot_ok
    /\ det_out.weed_detected
    /\ det_out.weed_count = 1
    /\ det_out.image = "image"
\* the backend raises (the prediction, or the conversion of its result) in a
\* call that got that far
BackendError(in) ==
    in.model_loaded /\ in.image = "ok" /\ in.predict \in {"error", "convert_error"}
\* every stage of the call works
BackendWorks(in) == in.image = "ok" /\ in.predict = "ok"

\* C12: a call on which the backend raises returns weed_detected False,
\* count 0, max_confidence 0.0 and leaves the model loaded and the threshold as
\* it was; the next call on the same detector, if its backend works, returns an
\* image and the count of its own target detections.
C12_BackendErrorIsOneCall ==
    /\ [][(detect_weeds_call /\ BackendError(det_in')) =>
             /\ ~det_out'.weed_detected
             /\ det_out'.weed_count = 0
             /\ det_out'.max_confidence = 0
             /\ detector_model' /\ detector_model
             /\ confidence_threshold' = confidence_threshold]_vars
    /\ [](( /\ det_prev # NoCall
            /\ BackendError(det_prev.in)
            /\ det_in.model_id = det_prev.in.model_id
            /\ BackendWorks(det_in))
          => /\ det_in.model_loaded
             /\ det_out.image # "None"
             /\ det_out.weed_count = Cardinality(Targets(det_in))
             /\ det_out.weed_detected <=> Targets(det_in) # {})

\* C12 witness: the prediction raised on one call and the next call, on the
\* same detector, found a weed.
C12_Witness ==
    /\ det_prev # NoCall
    /\ BackendError(det_prev.in)
    /\ det_in.model_id = det_prev.in.model_id
    /\ BackendWorks(det_in)
    /\ det_out.weed_detected
    /\ det_out.weed_count = 2

C19_UnavailableUntilReload ==
    /\ [][(detect_weeds_call /\ ~detector_model) =>
             /\ det_out' = Unavailable
             /\ detector_loads' = detector_loads
             /\ ~detector_model']_vars
    /\ [][(~detector_model /\ detector_model') => reload_model]_vars

\* C19 witness: two calls in a row on a detector whose construction loaded no
\* model, for an image on which every stage would have worked.
C19_Witness ==
    /\ ~detector_model
    /\ det_prev # NoCall
    /\ ~det_prev.in.model_loaded /\ ~det_in.model_loaded
    /\ det_in.model_id = det_prev.in.model_id
    /\ BackendWorks(det_in)
    /\ det_prev.out = Unavailable
    /\ det_out = Unavailable
\* the five keywords, in lower case
Keywords ==
    {<<"w","e","e","d">>, <<"u","n","w","a","n","t","e","d">>,
     <<"i","n","v","a","s","i","v","e">>, <<"p","e","s","t">>, <<"g","r","a","s","s">>}
\* character c is the lower-case letter k or its capital
SameLetter(c, k) ==
    c = k \/ \E i \in DOMAIN LowerCase : LowerCase[i] = k /\ UpperCase[i] = c
\* keyword kw stands in label at position pos, whatever the case
OccursAt(label, kw, pos) ==
    /\ pos + Len(kw) - 1 <= Len(label)
    /\ \A j \in 1..Len(kw) : SameLetter(label[pos + j - 1], kw[j])

\* C14: is_weed_class(label) is true exactly when one of the keywords weed,
\* unwanted, invasive, pest, grass occurs in the label, in any case, at some
\* position; Weed_Grass and WEED are targets, rice is not.
C14_KeywordSubstring ==
    det_out # NoCall =>
       LET label == det_in.class_name
       IN  /\ det_out.is_weed <=>
                \E kw \in Keywords : \E pos \in 1..Len(label) : OccursAt(label, kw, pos)
           /\ label = <<"W","e","e","d","_","G","r","a","s","s">> => det_out.is_weed
           /\ label = <<"W","E","E","D">> => det_out.is_weed
           /\ label = <<"r","i","c","e">> => ~det_out.is_weed

\* C14 witness: a label in capitals whose keyword is neither at its start nor
\* at its end was classified as a weed.
C14_Witness ==
    /\ det_out # NoCall
    /\ det_in.class_name = <<"R","_","G","R","A","S","S","_","G","r","a","i","n">>
    /\ det_out.is_weed
\* C16: a call of stop_webcam leaves current_webcam_frame empty.
C16_StopClearsFrame ==
    [][StopInvoked => current_webcam_frame' = None]_vars

\* a read of producer p fails
ReadFails(p) == read_frame(p) /\ pc'[p] # "process"

\* C17: a failed read stores no frame, posts no display and takes the producer
\* out of its loop; a producer that left its loop leads to the Closed state
\* (or the application has ended before).
C17_ReadFailureClosesSession ==
    /\ [][\A p \in Producers :
             ReadFails(p) =>
                /\ pc'[p] = "exit"
                /\ current_webcam_frame' = current_webcam_frame
                /\ afterQ' = afterQ]_vars
    /\ \A p \in Producers : (pc[p] = "exit") ~> (Closed \/ ~app_running)

\* C17 witness: the first read of an open session failed: no frame is stored,
\* the session is still marked running, and the deferred stop is posted.
C17_Witness ==
    /\ afterQ = <<"stop">>
    /\ webcam_running
    /\ openHandles # {}
    /\ current_webcam_frame = None
    /\ \A p \in Producers : pc[p] = "none"

\* C18: the end of a send_resend_email thread, whatever its outcome, changes
\* nothing but the thread: the session, the producers (none leaves its loop),
\* the callbacks and the dashboard are as before; and the producer that starts
\* the thread goes on to display its frame.
C18_NotifierFailureContained ==
    [][/\ send_resend_email =>
             UNCHANGED <<app_running, uiVars, sessionVars, opened, current_webcam_frame,
                         last_alert_time, producerVars, afterQ, capture_pc>>
       /\ \A p \in Producers : throttle_permit(p) => pc'[p] = "display"]_vars

\* C18 witness: a send_resend_email thread raised with no user logged in while
\* a realtime session is open and its producer is reading.
C18_Witness ==
    /\ notifier = "raised"
    /\ ~current_user
    /\ webcam_running /\ realtime_mode
    /\ cap \in openHandles
    /\ pc[cap] = "read"

\* a step of the snapshot action or of its thread and callback
CaptureStep == capture_webcam_image \/ capture_save \/ capture_detect \/ display_results

\* C20: capture_webcam_image and the thread it starts leave the session and
\* the producers as they are; with no frame the action changes nothing, with a
\* frame it starts one thread, which calls detect_weeds once: the call follows
\* the save and ends the thread (a save that raises ends it with the error box).
C20_CaptureLeavesSessionOpen ==
    [][/\ CaptureStep =>
             UNCHANGED <<sessionVars, producerVars, opened, current_webcam_frame,
                         controls_visible, capture_enabled, last_alert_time>>
       /\ (capture_webcam_image /\ current_webcam_frame = None) => UNCHANGED vars
       /\ (capture_webcam_image /\ current_webcam_frame # None) => capture_pc' = "save"
       /\ (capture_pc # "detect" /\ capture_pc' = "detect") => capture_save
       /\ (capture_save /\ capture_pc' # "detect") => afterQ' = Append(afterQ, "error")
       /\ capture_detect => (capture_pc = "detect" /\ capture_pc' = "none")]_vars

\* C20 witness: the result of a captured frame waits for display while the
\* snapshot session is still open and its producer is capturing.
C20_Witness ==
    /\ afterQ = <<"results_weed">>
    /\ capture_pc = "none"
    /\ webcam_running /\ snapshot_mode
    /\ cap \in openHandles
    /\ InLoop(cap)


\* C26: the deferred stop_webcam of a producer closes no session but the one
\* the producer was started for (the session whose VideoCapture it was given).
C26_DeferredStopOwnSession ==
    [][(run_after_stop /\ webcam_running) => cap = Head(stop_from)]_vars

\* C27: whenever no user is logged in, no session is running and no device is held.
C27_LoggedOutNoSession ==
    ~current_user => (~webcam_running /\ openHandles = {})

\* C28: the Capture Image button can be pressed (it is shown and its state is
\* normal) only while a session is open in snapshot mode.
C28_CaptureOnlyInSnapshot ==
    (controls_visible /\ capture_enabled) => (webcam_running /\ snapshot_mode)


\* the frame that producer p has read and not yet handed on
FrameOf(p) == CHOOSE e \in {captured[i] : i \in DOMAIN captured} : e.by = p

\* a send_resend_email thread is started
Dispatch == notifier # "running" /\ notifier' = "running"

\* what holds of every dispatch of the capture loop: it is made by a producer
\* whose frame went through the throttle, which that frame entered from a
\* triggered detection and left permitted; the producer goes on to display
\* the frame in the same step
DispatchRules ==
    /\ Dispatch => \E p \in Producers : throttle_permit(p)
    /\ \A p \in Producers :
          /\ throttle_permit(p) => (pc[p] = "setlast" /\ pc'[p] = "display")
          /\ (pc[p] # "setlast" /\ pc'[p] = "setlast") =>
                (throttle_check(p) /\ should_alert(last_alert_time, cur'[p]))
          /\ (pc[p] # "throttle" /\ pc'[p] = "throttle") =>
                /\ process_frame(p)
                /\ \E result \in FrameResults : result.image # "None" /\ result.weed_detected

\* C22 as stated: every dispatch follows DispatchRules and is for a frame that
\* was read while realtime_mode was set.
C22_AlertOnlyForRealtimeFrame ==
    [][/\ DispatchRules
       /\ \A p \in Producers : throttle_permit(p) => FrameOf(p).realtime]_vars

\* C22, amended: every dispatch follows DispatchRules and is for a frame that
\* entered detection while realtime_mode was set and the model was loaded (the
\* flag is read when the frame is processed, after it was read).
C22_AlertOnlyForFrameProcessedInRealtime ==
    [][/\ DispatchRules
       /\ \A p \in Producers :
             (pc[p] # "throttle" /\ pc'[p] = "throttle") => (realtime_mode /\ detector_model)]_vars

\* C22 witness: an alert was dispatched and its thread still runs while the
\* producer that dispatched it is already reading the next frame.
C22_Witness ==
    /\ notifier = "running"
    /\ last_alert_time # NoTime
    /\ \E p \in Producers : pc[p] = "read" /\ capref[p] \in openHandles
    /\ afterQ = <<"display">>


\* producer p holds a frame it has read and not yet handed on
Holds(p) == \E i \in DOMAIN captured : captured[i].by = p

\* producer p hands its frame to the consumer: it posts update_webcam_display
HandsOver(p) == Holds(p) /\ ~Holds(p)' /\ afterQ' = Append(afterQ, "display")

\* C23: while the application runs, every frame read leaves its producer by
\* one update_webcam_display posted to the after queue, and the frames are
\* posted in the order in which they were read.
C23_OneDisplayPerFrameInOrder ==
    [][\A p \in Producers :
          /\ (Holds(p) /\ ~Holds(p)' /\ app_running') => HandsOver(p)
          /\ HandsOver(p) => Head(captured).by = p]_vars


\* what an update with the value n is to store: n brought into [0.1, 1.0]
Stored(n) == IF n < 10 THEN 10 ELSE IF n > 100 THEN 100 ELSE n

\* C29: the stored threshold is always in [0.1, 1.0]; an update stores 0.1
\* for a value below, 1.0 for a value above and the value itself otherwise;
\* the same update applied again changes nothing.
C29_ThresholdClamped ==
    /\ [](confidence_threshold >= 10 /\ confidence_threshold <= 100)
    /\ [][\A n \in NewThresholds :
             update_confidence_threshold(n) =>
                /\ confidence_threshold' = Stored(n)
                /\ confidence_threshold = Stored(n) => UNCHANGED vars]_vars

\* C29 witness: an update above the range was stored as 1.0 and a detection
\* was run with it.
C29_Witness ==
    /\ confidence_threshold = 100
    /\ det_in # NoCall
    /\ det_in.conf = 100


\* C25: a detect_weeds call hands to the inference the threshold that was
\* stored when the call started, whatever updates land during the call.
C25_CallUsesThresholdAtStart ==
    inflight.pc = "returned" =>
        /\ inflight.used = inflight.at_start
        /\ det_in.detections = model_predict(Images[det_in.image_path], inflight.at_start)


\* ceil(f / n)
CeilDiv(f, n) == (f + n - 1) \div n

\* C21: with frames_per_image = N >= 1, the files written so far are, in order,
\* the frames whose index is a multiple of N, numbered from 0; when the
\* function has returned from an opened video of F readable frames, all F
\* frames were read and no more, ceil(F / N) files are written and the
\* capture is released.
C21_EveryNthFrameSaved ==
    /\ Len(saved) = saved_image_count
    /\ \A i \in DOMAIN saved :
          /\ saved[i].file = i - 1
          /\ saved[i].frame = (i - 1) * frames_per_image
          /\ saved[i].frame < video
    /\ saved_image_count = CeilDiv(frame_count, frames_per_image)
    /\ frame_count <= video
    /\ (extract_pc = "returned" /\ video_cap # "none") =>
          /\ frame_count = video
          /\ saved_image_count = CeilDiv(video, frames_per_image)
          /\ video_cap = "released"

\* C21 witness: a video of 7 frames was extracted with frames_per_image = 3:
\* frames 0, 3 and 6 are the files 0, 1 and 2.
C21_Witness ==
    /\ extract_pc = "returned"
    /\ video_cap = "released"
    /\ video = 7
    /\ frames_per_image = 3
    /\ saved = <<[file |-> 0, frame |-> 0], [file |-> 1, frame |-> 3],
                 [file |-> 2, frame |-> 6]>>


\* a call in progress is filling the array
BeingWritten(a) == \E p \in Producers : writing[p] = a

\* C24: the array that current_webcam_frame refers to is complete and no call
\* fills it; each store publishes a new array, not the one read() returned nor
\* the one published before; and the array capture_webcam_image is reading is
\* not being filled by any producer.
C24_PublishedFrameIsPrivateCopy ==
    /\ [](current_webcam_frame # None => ~BeingWritten(current_webcam_frame))
    /\ [](reading # None => ~BeingWritten(reading))
    /\ [][\A p \in Producers :
             frame_copy_store(p) =>
                /\ current_webcam_frame' # current_webcam_frame
                /\ current_webcam_frame' # frame[p]
                /\ \A q \in Producers : current_webcam_frame' # frame[q]]_vars

\* C24 witness: capture_webcam_image is reading the published array while one
\* producer fills the copy of its next frame and the other reads the device.
C24_Witness ==
    /\ reading # None
    /\ capture_pc = "converting"
    /\ \E p \in Producers : pc[p] = "copying"
    /\ \E p \in Producers : pc[p] = "reading"


\* a result is waiting for display_results
ResultWaiting == afterQ # <<>> /\ Head(afterQ) \in {"results_weed", "results_clean"}

====
